---- MODULE Spec2Model ----
(***************************************************************************)
(* Model of lib/adapters/document-sync-adapter.js: the DocumentSyncAdapter *)
(* (coordinator) and the TextEditorSyncAdapter (one session per editor),   *)
(* driven by the host editor's events and emitting language-server         *)
(* notifications on the connection.                                        *)
(***************************************************************************)
EXTENDS Integers, Sequences, FiniteSets, TLC

(***************************************************************************)
(* Bounds of the model.                                                    *)
(***************************************************************************)
MaxVersion == 3
MaxSubEdits == 2
MaxTextLen == 2

Editors == {"e1", "e2"}
MaxSessions == Cardinality(Editors) + 1

\* editor.getPath() of a never-saved editor
Null == "null"
Paths == {"/a.ts", "/b.ts"}
Chars == {"x"}

\* TextDocumentSyncKind
SyncNone == 0
SyncFull == 1
SyncIncremental == 2
SyncUnknown == 3
SyncKinds == {SyncNone, SyncFull, SyncIncremental, SyncUnknown}

NoSession == 0

VARIABLES
  documentSyncKind, \* DocumentSyncAdapter._documentSyncKind
  editorSelector,   \* DocumentSyncAdapter._editorSelector, as the set it accepts
  hostEditors,      \* the text editors the host opens in this run
  editors,          \* the host's text editors: status, path, text
  registry,         \* DocumentSyncAdapter._editors
  sessions,         \* every TextEditorSyncAdapter constructed so far
  observing,        \* the atom.textEditors.observe subscription is active
  cdisposed,        \* DocumentSyncAdapter._disposable.disposed
  citems,           \* DocumentSyncAdapter._disposable's members
  hooks,            \* sessions whose coordinator onDidDestroy hook is subscribed
  sent,             \* the notifications the last operation sent on the connection
  history,          \* per session, how many notifications of each kind it has sent
  disposedOn,       \* the sessions that existed when a dispose() covering them ran
  failed,           \* the sessions whose constructor threw
  openedAs,         \* per session, the uri of the open notification it sent
  lastEvent         \* the operation that produced this state

vars == <<documentSyncKind, editorSelector, hostEditors, editors, registry, sessions,
          observing, cdisposed, citems, hooks, sent, history, disposedOn,
          failed, openedAs, lastEvent>>

(***************************************************************************)
(* Helpers.                                                                *)
(***************************************************************************)
RECURSIVE Concat(_, _)
\* f[1] \o ... \o f[n]
Concat(f, n) == IF n = 0 THEN <<>> ELSE Concat(f, n - 1) \o f[n]

SessionIds == DOMAIN sessions

\* Convert.pathToUri
PathToUri(p) ==
  CASE p = "" -> "file:///"
    [] p = "/a.ts" -> "file:///a.ts"
    [] p = "/b.ts" -> "file:///b.ts"

\* String.prototype.toLowerCase on the grammar names of the model
ToLowerCase(name) ==
  CASE name = "TypeScript" -> "typescript"
    [] name = "JavaScript" -> "javascript"

\* editor.getGrammar().name
GrammarName(e) == IF e = "e1" THEN "TypeScript" ELSE "JavaScript"

\* Convert.atomRangeToLSRange
AtomRangeToLSRange(r) ==
  [start |-> [line |-> r.start.row, character |-> r.start.column],
   end   |-> [line |-> r.end.row,   character |-> r.end.column]]

(***************************************************************************)
(* The host's text buffer: single-line text, edits at column 0.            *)
(***************************************************************************)
Point(row, column) == [row |-> row, column |-> column]

\* the atom$TextEditEvent sub-edits possible on text t
TextEdits(t) ==
  {[oldRange |-> [start |-> Point(0, 0), end |-> Point(0, 0)],
    oldText |-> <<>>, newText |-> <<c>>] : c \in {c \in Chars : Len(t) < MaxTextLen}}
  \cup
  {[oldRange |-> [start |-> Point(0, 0), end |-> Point(0, 1)],
    oldText |-> <<t[i]>>, newText |-> <<>>] : i \in {i \in {1} : Len(t) > 0}}

ApplyEdit(t, ed) == ed.newText \o SubSeq(t, Len(ed.oldText) + 1, Len(t))

RECURSIVE ApplyBatch(_, _)
ApplyBatch(t, batch) ==
  IF batch = <<>> THEN t ELSE ApplyBatch(ApplyEdit(t, Head(batch)), Tail(batch))

RECURSIVE Batches(_, _)
\* the change batches of at most n sub-edits possible on text t
Batches(t, n) ==
  {<<>>} \cup
  (IF n = 0 THEN {}
   ELSE UNION {{<<ed>> \o rest : rest \in Batches(ApplyEdit(t, ed), n - 1)} :
               ed \in TextEdits(t)})

(***************************************************************************)
(* TextEditorSyncAdapter.  ed is the host's record of the session's        *)
(* editor at the moment the method runs.                                   *)
(***************************************************************************)
getURI(ed) == ed.path

getEditorUri(ed) == PathToUri(IF ed.path = Null THEN "" ELSE ed.path)

getLanguageId(ed) == ed.grammar

\* setupChangeTracking whose Full case falls through to the Incremental one
setupChangeTracking_FallThrough(kind) ==
  CASE kind = SyncFull -> {"onDidChange", "onDidChangeText"}
    [] kind = SyncIncremental -> {"onDidChangeText"}
    [] OTHER -> {}

setupChangeTracking(kind) ==
  CASE kind = SyncFull -> {"onDidChange"}
    [] kind = SyncIncremental -> {"onDidChangeText"}
    [] OTHER -> {}

\* the subscriptions the constructor adds to the session's _disposable
constructorSubscriptions(kind) ==
  setupChangeTracking(kind) \cup {"onDidSave", "onDidDestroy"}

getVersionedTextDocumentIdentifier(ed, version) ==
  [uri |-> getEditorUri(ed), version |-> version]

\* the notifications didOpen sends for session s
didOpen(s, ed, version) ==
  IF getURI(ed) = Null THEN <<>>
  ELSE <<[method |-> "didOpenTextDocument", by |-> s,
          textDocument |-> [uri |-> getEditorUri(ed),
                            languageId |-> ToLowerCase(getLanguageId(ed)),
                            version |-> version,
                            text |-> ed.text]]>>

\* the session's version after the handler, and the notifications it sends
\* sendFullChanges sending the text the editor had before the change
sendFullChanges_StaleText(s, ed, version) ==
  [version |-> version + 1,
   notes |-> <<[method |-> "didChangeTextDocument", by |-> s,
                textDocument |-> getVersionedTextDocumentIdentifier(ed, version + 1),
                contentChanges |-> <<[text |-> editors[sessions[s].editor].text]>>]>>]

sendFullChanges(s, ed, version) ==
  [version |-> version + 1,
   notes |-> <<[method |-> "didChangeTextDocument", by |-> s,
                textDocument |-> getVersionedTextDocumentIdentifier(ed, version + 1),
                contentChanges |-> <<[text |-> ed.text]>>]>>]

\* textEditToContentChange taking the length of the inserted text
textEditToContentChange_NewTextLength(change) ==
  [range |-> AtomRangeToLSRange(change.oldRange),
   rangeLength |-> Len(change.newText),
   text |-> change.newText]

textEditToContentChange(change) ==
  [range |-> AtomRangeToLSRange(change.oldRange),
   rangeLength |-> Len(change.oldText),
   text |-> change.newText]

\* sendIncrementalChanges counting the version once per sub-edit
sendIncrementalChanges_PerSubEdit(s, ed, version, changes) ==
  IF Len(changes) > 0
  THEN [version |-> version + Len(changes),
        notes |-> <<[method |-> "didChangeTextDocument", by |-> s,
                     textDocument |->
                       getVersionedTextDocumentIdentifier(ed, version + Len(changes)),
                     contentChanges |->
                  [i \in 1..Len(changes) |-> textEditToContentChange(changes[i])]]>>]
  ELSE [version |-> version, notes |-> <<>>]

\* sendIncrementalChanges without the test for an empty batch
sendIncrementalChanges_NoEmptyTest(s, ed, version, changes) ==
  [version |-> version + 1,
   notes |-> <<[method |-> "didChangeTextDocument", by |-> s,
                textDocument |-> getVersionedTextDocumentIdentifier(ed, version + 1),
                contentChanges |->
                  [i \in 1..Len(changes) |-> textEditToContentChange(changes[i])]]>>]

sendIncrementalChanges(s, ed, version, changes) ==
  IF Len(changes) > 0
  THEN [version |-> version + 1,
        notes |-> <<[method |-> "didChangeTextDocument", by |-> s,
                     textDocument |-> getVersionedTextDocumentIdentifier(ed, version + 1),
                     contentChanges |->
                  [i \in 1..Len(changes) |-> textEditToContentChange(changes[i])]]>>]
  ELSE [version |-> version, notes |-> <<>>]

\* didDestroy without the test for an unsaved editor
didDestroy_NoIdentityTest(s, ed) ==
  <<[method |-> "didCloseTextDocument", by |-> s,
     textDocument |-> [uri |-> getEditorUri(ed)]]>>

didDestroy(s, ed) ==
  IF getURI(ed) = Null THEN <<>>
  ELSE <<[method |-> "didCloseTextDocument", by |-> s,
          textDocument |-> [uri |-> getEditorUri(ed)]]>>

\* didSave sending the watched-files notification first
didSave_WatchedFirst(s, ed) ==
  <<[method |-> "didChangeWatchedFiles", by |-> s,
     changes |-> <<[uri |-> getEditorUri(ed), type |-> "Changed"]>>],
    [method |-> "didSaveTextDocument", by |-> s,
     textDocument |-> [uri |-> getEditorUri(ed)]]>>

didSave(s, ed) ==
  <<[method |-> "didSaveTextDocument", by |-> s,
     textDocument |-> [uri |-> getEditorUri(ed)]],
    [method |-> "didChangeWatchedFiles", by |-> s,
     changes |-> <<[uri |-> getEditorUri(ed), type |-> "Changed"]>>]>>

\* new TextEditorSyncAdapter(editor, connection, documentSyncKind), before didOpen
newSession(e, kind) ==
  [editor |-> e, version |-> 1, subs |-> constructorSubscriptions(kind),
   disposed |-> FALSE]

\* a dispose that marks the sessions disposed and leaves them subscribed
sessionsDisposed_KeepsSubscriptions(ss, all) ==
  [s \in DOMAIN all |->
     IF s \in ss THEN [all[s] EXCEPT !.disposed = TRUE] ELSE all[s]]

\* TextEditorSyncAdapter.dispose on every session of ss: its _disposable
\* unsubscribes everything the constructor added
sessionsDisposed(ss, all) ==
  [s \in DOMAIN all |->
     IF s \in ss THEN [all[s] EXCEPT !.subs = {}, !.disposed = TRUE] ELSE all[s]]

(***************************************************************************)
(* DocumentSyncAdapter                                                     *)
(***************************************************************************)
\* The values serverCapabilities.textDocumentSync can hold at run time: a
\* value is its type tag with its number (a boolean's as 0 or 1) or string.
JSNumber(n) == [type |-> "number", num |-> n, str |-> ""]

JSString(s) == [type |-> "string", num |-> 0, str |-> s]

JSBoolean(b) == [type |-> "boolean", num |-> IF b THEN 1 ELSE 0, str |-> ""]

JSUndefined == [type |-> "undefined", num |-> 0, str |-> ""]

NumericStrings == {"0", "1", "2"}

StringToNumber(s) == CASE s = "0" -> 0 [] s = "1" -> 1 [] s = "2" -> 2

\* ToNumber: the set holding the number a value converts to, empty for NaN
ToNumber(v) ==
  CASE v.type = "number" -> {v.num}
    [] v.type = "boolean" -> {v.num}
    [] v.type = "string" ->
         IF v.str \in NumericStrings THEN {StringToNumber(v.str)} ELSE {}
    [] OTHER -> {}

\* a === b
StrictEquals(a, b) == a = b

\* a == b: values of one type compare strictly, undefined equals no number,
\* string or boolean, and the others compare by the numbers they convert to
LooseEquals(a, b) ==
  IF a.type = b.type THEN a = b
  ELSE IF "undefined" \in {a.type, b.type} THEN FALSE
  ELSE ToNumber(a) \cap ToNumber(b) # {}

canAdapt(textDocumentSync) ==
  \/ StrictEquals(textDocumentSync, JSNumber(SyncIncremental))
  \/ LooseEquals(textDocumentSync, JSNumber(SyncFull))

\* observeTextEditor without the test for an editor already observed
shouldObserve_NoHasTest(e) == e \in editorSelector

\* the condition under which observeTextEditor constructs a session
shouldObserve(e) == registry[e] = NoSession /\ e \in editorSelector

\* CompositeDisposable.add on DocumentSyncAdapter._disposable
compositeAdd(items) == IF cdisposed THEN citems ELSE citems \cup items

\* CompositeDisposable.remove on DocumentSyncAdapter._disposable
compositeRemove(items) == IF cdisposed THEN citems ELSE citems \ items

\* observeTextEditor(editor) on the editor whose record is ed; the editors
\* variable is set by the caller
observeTextEditor(e, ed) ==
  IF shouldObserve(e)
  THEN LET s == Len(sessions) + 1 IN
       /\ s <= MaxSessions
       /\ sessions' = Append(sessions, newSession(e, documentSyncKind))
       /\ sent' = didOpen(s, ed, 1)
       /\ registry' = [registry EXCEPT ![e] = s]
       /\ citems' = compositeAdd({<<"sync", s>>, <<"hook", s>>})
       /\ hooks' = hooks \cup {s}
  ELSE /\ sent' = <<>>
       /\ UNCHANGED <<sessions, registry, citems, hooks>>

\* an onDidDestroy hook that leaves out sync.dispose()
hookDisposes_Nothing(ss) == {}

\* what the onDidDestroy hook of observeTextEditor disposes: sync.dispose()
hookDisposes(ss) == ss

\* an onDidDestroy hook that leaves out this._editors.delete(editor)
hookDeletes_Nothing(e, ss) == registry

\* the registry after the onDidDestroy hooks of the sessions ss of editor e:
\* this._editors.delete(editor)
hookDeletes(e, ss) ==
  IF ss = {} THEN registry ELSE [registry EXCEPT ![e] = NoSession]

\* the onDidDestroy hooks registered by observeTextEditor, for the sessions ss
\* of editor e, run on the sessions value all
destroyHooks(e, ss, all) ==
  /\ registry' = hookDeletes(e, ss)
  /\ citems' = compositeRemove({<<"sync", s>> : s \in ss})
  /\ sessions' = sessionsDisposed(hookDisposes(ss), all)
  /\ hooks' = hooks \ ss

(***************************************************************************)
(* Host events and calls.                                                  *)
(***************************************************************************)
Event(op, e, arg) == [op |-> op, e |-> e, arg |-> arg]

SessionsOf(e) == {s \in SessionIds : sessions[s].editor = e}

Listeners(e, sub) == {s \in SessionsOf(e) : sub \in sessions[s].subs}

\* the notifications of method m by session s among notes
NotesBy(notes, s, m) == {i \in DOMAIN notes : notes[i].by = s /\ notes[i].method = m}

Tracked == {"didOpenTextDocument", "didChangeTextDocument", "didCloseTextDocument"}

\* history and openedAs follow what the operation sent
Recorded ==
  /\ history' = [s \in DOMAIN sessions' |->
                   [m \in Tracked |->
                      (IF s \in DOMAIN history THEN history[s][m] ELSE 0)
                      + Cardinality(NotesBy(sent', s, m))]]
  /\ openedAs' = [s \in DOMAIN sessions' |->
                    LET opens == NotesBy(sent', s, "didOpenTextDocument") IN
                    IF opens # {}
                    THEN sent'[CHOOSE i \in opens : TRUE].textDocument.uri
                    ELSE IF s \in DOMAIN openedAs THEN openedAs[s] ELSE Null]

\* the sets of editors a run may have
Workspaces == {{"e1"}}

Init ==
  /\ documentSyncKind \in SyncKinds
  /\ hostEditors \in Workspaces
  /\ editorSelector \in SUBSET hostEditors
  /\ editors = [e \in Editors |->
                  [status |-> "absent", path |-> Null, text |-> <<>>,
                   grammar |-> GrammarName(e)]]
  /\ registry = [e \in Editors |-> NoSession]
  /\ sessions = <<>>
  /\ observing = TRUE
  /\ cdisposed = FALSE
  /\ citems = {<<"observe", 0>>}
  /\ hooks = {}
  /\ sent = <<>>
  /\ history = <<>>
  /\ disposedOn = {}
  /\ failed = {}
  /\ openedAs = <<>>
  /\ lastEvent = Event("new", "", 0)

\* the host opens a text editor; atom.textEditors.observe calls the callback
\* while the subscription of the constructor is active
OpenEditor(e, path, text) ==
  /\ e \in hostEditors
  /\ editors[e].status = "absent"
  /\ editors' = [editors EXCEPT ![e].status = "alive", ![e].path = path,
                                ![e].text = text]
  /\ IF observing THEN observeTextEditor(e, editors'[e])
     ELSE /\ sent' = <<>>
          /\ UNCHANGED <<sessions, registry, citems, hooks>>
  /\ UNCHANGED disposedOn
  /\ lastEvent' = Event("open", e, 0)
  /\ UNCHANGED <<documentSyncKind, editorSelector, hostEditors, observing,
                 cdisposed>>
  /\ UNCHANGED failed
  /\ Recorded

\* a direct call of the public method observeTextEditor on an open editor
Observe(e) ==
  /\ editors[e].status = "alive"
  /\ observeTextEditor(e, editors[e])
  /\ UNCHANGED disposedOn
  /\ lastEvent' = Event("observe", e, 0)
  /\ UNCHANGED <<documentSyncKind, editorSelector, hostEditors, editors,
                 observing, cdisposed>>
  /\ UNCHANGED failed
  /\ Recorded

\* the handler of session s for a change batch, by its subscription.  The
\* editor's own emitter (onDidChange) is gone once the editor is destroyed,
\* the buffer's (onDidChangeText) is not.
changeHandler(s, ed, batch) ==
  IF "onDidChange" \in sessions[s].subs /\ ed.status = "alive"
  THEN sendFullChanges(s, ed, sessions[s].version)
  ELSE IF "onDidChangeText" \in sessions[s].subs
  THEN sendIncrementalChanges(s, ed, sessions[s].version, batch)
  ELSE [version |-> sessions[s].version, notes |-> <<>>]

\* the buffer of editor e changes by one coalesced batch of sub-edits.  The
\* buffer of a destroyed editor is followed only while a session listens.
Change(e, batch) ==
  /\ \/ editors[e].status = "alive"
     \/ /\ editors[e].status = "destroyed"
        /\ Listeners(e, "onDidChangeText") # {}
  /\ editors' = [editors EXCEPT ![e].text = ApplyBatch(@, batch)]
  /\ LET out == [s \in SessionIds |->
                   IF sessions[s].editor = e
                   THEN changeHandler(s, editors'[e], batch)
                   ELSE [version |-> sessions[s].version, notes |-> <<>>]] IN
       /\ sessions' = [s \in SessionIds |->
                         [sessions[s] EXCEPT !.version = out[s].version]]
       /\ sent' = Concat([s \in SessionIds |-> out[s].notes], Len(sessions))
  /\ \A s \in SessionIds : sessions'[s].version <= MaxVersion
  /\ UNCHANGED disposedOn
  /\ lastEvent' = Event("change", e, batch)
  /\ UNCHANGED <<documentSyncKind, editorSelector, hostEditors, registry, observing,
                 cdisposed, citems, hooks>>
  /\ UNCHANGED failed
  /\ Recorded

\* the buffer of editor e is saved to path (save, or save-as to another path);
\* editor.onDidSave subscribes to the buffer
Save(e, path) ==
  /\ \/ editors[e].status = "alive"
     \/ /\ editors[e].status = "destroyed"
        /\ Listeners(e, "onDidSave") # {}
  /\ editors' = [editors EXCEPT ![e].path = path]
  /\ sent' = Concat([s \in SessionIds |->
                               IF s \in Listeners(e, "onDidSave")
                               THEN didSave(s, editors'[e]) ELSE <<>>],
                            Len(sessions))
  /\ UNCHANGED disposedOn
  /\ lastEvent' = Event("save", e, path)
  /\ UNCHANGED <<documentSyncKind, editorSelector, hostEditors, registry, sessions,
                 observing, cdisposed, citems, hooks>>
  /\ UNCHANGED failed
  /\ Recorded

\* the host destroys editor e: the onDidDestroy handlers run in the order of
\* their subscription, each session's didDestroy before its hook
Destroy(e) ==
  /\ editors[e].status = "alive"
  /\ editors' = [editors EXCEPT ![e].status = "destroyed"]
  /\ sent' = Concat([s \in SessionIds |->
                               IF s \in Listeners(e, "onDidDestroy")
                               THEN didDestroy(s, editors[e]) ELSE <<>>],
                            Len(sessions))
  /\ destroyHooks(e, SessionsOf(e) \cap hooks, sessions)
  /\ UNCHANGED disposedOn
  /\ lastEvent' = Event("destroy", e, 0)
  /\ UNCHANGED <<documentSyncKind, editorSelector, hostEditors, observing,
                 cdisposed>>
  /\ UNCHANGED failed
  /\ Recorded

\* DocumentSyncAdapter.dispose(): CompositeDisposable.dispose disposes every
\* member once and ignores later calls
CoordinatorDispose ==
  /\ IF cdisposed
     THEN UNCHANGED <<cdisposed, observing, citems, sessions, hooks>>
     ELSE /\ cdisposed' = TRUE
          /\ observing' = FALSE
          /\ sessions' = sessionsDisposed({s \in SessionIds : <<"sync", s>> \in citems},
                                          sessions)
          /\ hooks' = hooks \ {s \in SessionIds : <<"hook", s>> \in citems}
          /\ citems' = {}
  /\ sent' = <<>>
  /\ disposedOn' = disposedOn \cup SessionIds
  /\ lastEvent' = Event("dispose", "", 0)
  /\ UNCHANGED <<documentSyncKind, editorSelector, hostEditors, editors, registry>>
  /\ UNCHANGED failed
  /\ Recorded

\* TextEditorSyncAdapter.dispose() called on session s; nothing holds a
\* reference to a session whose constructor threw
SessionDispose(s) ==
  /\ s \notin failed
  /\ sessions' = sessionsDisposed({s}, sessions)
  /\ sent' = <<>>
  /\ disposedOn' = disposedOn \cup {s}
  /\ lastEvent' = Event("sessionDispose", sessions[s].editor, s)
  /\ UNCHANGED <<documentSyncKind, editorSelector, hostEditors, editors,
                 registry, observing, cdisposed, citems, hooks>>
  /\ UNCHANGED failed
  /\ Recorded

InitialTexts == {<<>>, <<"x">>}

Next ==
  \/ \E e \in Editors, path \in Paths \cup {Null}, text \in InitialTexts :
       OpenEditor(e, path, text)
  \/ \E e \in Editors : Observe(e)
  \/ \E e \in Editors : \E batch \in Batches(editors[e].text, MaxSubEdits) :
       Change(e, batch)
  \/ \E e \in Editors, path \in Paths : Save(e, path)
  \/ \E e \in Editors : Destroy(e)
  \/ CoordinatorDispose
  \/ \E s \in SessionIds : SessionDispose(s)

Spec == Init /\ [][Next]_vars

\* the values a server can advertise as textDocumentSync
Capabilities ==
  {JSNumber(k) : k \in SyncKinds}
    \cup {JSString("1"), JSString("2"), JSString("full"), JSBoolean(TRUE),
          JSBoolean(FALSE), JSUndefined}

\* the connection manager asks whether the adapter applies to a server
CanAdapt(capability) ==
  /\ lastEvent' = Event("canAdapt", "",
                        [capability |-> capability, result |-> canAdapt(capability)])
  /\ sent' = <<>>
  /\ UNCHANGED <<documentSyncKind, editorSelector, hostEditors, editors,
                 registry, sessions, observing, cdisposed, citems, hooks,
                 disposedOn>>
  /\ UNCHANGED failed
  /\ Recorded

NextCanAdapt ==
  \/ Next
  \/ \E capability \in Capabilities : CanAdapt(capability)

SpecCanAdapt == Init /\ [][NextCanAdapt]_vars

\* observeTextEditor(editor) where connection.didOpenTextDocument throws:
\* the constructor has subscribed (lines 89-97) when didOpen (line 99) throws,
\* and the exception leaves observeTextEditor before this._editors.set
ObserveThrows(e) ==
  LET s == Len(sessions) + 1 IN
  /\ editors[e].status = "alive"
  /\ shouldObserve(e)
  /\ getURI(editors[e]) # Null
  /\ s <= MaxSessions
  /\ sessions' = Append(sessions, newSession(e, documentSyncKind))
  /\ failed' = failed \cup {s}
  /\ sent' = <<>>
  /\ lastEvent' = Event("observeThrows", e, s)
  /\ UNCHANGED <<documentSyncKind, editorSelector, hostEditors, editors,
                 registry, observing, cdisposed, citems, hooks, disposedOn>>
  /\ Recorded

NextThrows ==
  \/ Next
  \/ \E e \in Editors : ObserveThrows(e)

SpecThrows == Init /\ [][NextThrows]_vars

\* a run with two text editors, both accepted by the selector, for a server
\* that advertises Full or Incremental
InitTwo ==
  /\ documentSyncKind \in {SyncFull, SyncIncremental}
  /\ hostEditors = Editors
  /\ editorSelector = Editors
  /\ editors = [e \in Editors |->
                  [status |-> "absent", path |-> Null, text |-> <<>>,
                   grammar |-> GrammarName(e)]]
  /\ registry = [e \in Editors |-> NoSession]
  /\ sessions = <<>>
  /\ observing = TRUE
  /\ cdisposed = FALSE
  /\ citems = {<<"observe", 0>>}
  /\ hooks = {}
  /\ sent = <<>>
  /\ history = <<>>
  /\ disposedOn = {}
  /\ failed = {}
  /\ openedAs = <<>>
  /\ lastEvent = Event("new", "", 0)

\* what the host and the owner of the adapter do in a run with two editors:
\* editors open empty and change by one sub-edit at a time, and the public
\* methods observeTextEditor and TextEditorSyncAdapter.dispose are not called
\* directly
NextTwo ==
  \/ \E e \in Editors, path \in Paths \cup {Null} : OpenEditor(e, path, <<>>)
  \/ \E e \in Editors : \E batch \in Batches(editors[e].text, 1) :
       Change(e, batch)
  \/ \E e \in Editors, path \in Paths : Save(e, path)
  \/ \E e \in Editors : Destroy(e)
  \/ CoordinatorDispose

SpecTwo == InitTwo /\ [][NextTwo]_vars

(***************************************************************************)
(* Properties.  sent holds what the last operation sent, lastEvent names   *)
(* that operation, history counts what each session has sent so far.       *)
(***************************************************************************)
EditorOf(s) == sessions[s].editor

HasIdentity(e) == editors[e].path # Null

\* session s receives the change events of editor e
TracksChanges(s, e) ==
  /\ sessions[s].editor = e
  /\ \/ "onDidChange" \in sessions[s].subs /\ editors[e].status = "alive"
     \/ "onDidChangeText" \in sessions[s].subs

\* C1: no notification is sent for a session whose document has no stable
\* identity (no path) when it is sent.
C1_NoNotificationWithoutIdentity ==
  \A i \in DOMAIN sent : HasIdentity(EditorOf(sent[i].by))

\* C2: every change notification of a session comes after that session's
\* open notification.
C2_OpenPrecedesChange ==
  \A i \in DOMAIN sent :
     sent[i].method = "didChangeTextDocument"
       => history[sent[i].by].didOpenTextDocument >= 1

\* C3: a session constructed for a document without identity (it has sent no
\* open notification) never sends a notification of any kind, also after the
\* document was saved.
C3_DormantWithoutIdentity ==
  \A s \in SessionIds :
     history[s].didOpenTextDocument = 0 => \A i \in DOMAIN sent : sent[i].by # s

\* C4: the open notification carries version 1; a session's version is 1 plus
\* the number of change notifications it has sent and the k-th of them carries
\* version k+1; a non-empty change batch delivered to a session raises its
\* version by exactly 1 whatever its number of sub-edits; save and destroy
\* events leave every version unchanged.
C4_VersionCountsChanges ==
  [][/\ \A s \in DOMAIN sessions' :
          sessions'[s].version = 1 + history'[s].didChangeTextDocument
     /\ \A i \in DOMAIN sent' :
          /\ sent'[i].method = "didOpenTextDocument"
               => sent'[i].textDocument.version = 1
          /\ sent'[i].method = "didChangeTextDocument"
               => sent'[i].textDocument.version
                    = history'[sent'[i].by].didChangeTextDocument + 1
     /\ (lastEvent'.op = "change" /\ Len(lastEvent'.arg) > 0)
          => \A s \in SessionIds :
                TracksChanges(s, lastEvent'.e)
                  => /\ sessions'[s].version = sessions[s].version + 1
                     /\ Cardinality(NotesBy(sent', s, "didChangeTextDocument")) = 1
     /\ lastEvent'.op \in {"save", "destroy"}
          => \A s \in SessionIds : sessions'[s].version = sessions[s].version
    ]_vars

\* C4 witness: an incremental session has sent its second change notification,
\* for a batch of two sub-edits, and is at version 3.
C4_Witness ==
  /\ lastEvent.op = "change"
  /\ Len(lastEvent.arg) = 2
  /\ \E i \in DOMAIN sent :
       /\ sent[i].method = "didChangeTextDocument"
       /\ sent[i].textDocument.version = 3
       /\ Len(sent[i].contentChanges) = 2
       /\ sessions[sent[i].by].version = 3

\* C5 as stated: a change batch with zero sub-edits delivered to a session
\* changes no version and sends no notification.
C5_EmptyBatchSilent ==
  [][(lastEvent'.op = "change" /\ Len(lastEvent'.arg) = 0)
       => /\ sent' = <<>>
          /\ \A s \in SessionIds : sessions'[s].version = sessions[s].version
    ]_vars

\* C5 amended: a change batch with zero sub-edits delivered to a session of
\* the Incremental strategy changes no version and sends no notification.
C5_EmptyBatchSilentIncremental ==
  [][(/\ lastEvent'.op = "change"
      /\ Len(lastEvent'.arg) = 0
      /\ documentSyncKind = SyncIncremental)
       => /\ sent' = <<>>
          /\ \A s \in SessionIds : sessions'[s].version = sessions[s].version
    ]_vars

\* C5 witness: an empty batch has been delivered to a listening incremental
\* session, which sent nothing.
C5_Witness ==
  /\ lastEvent.op = "change"
  /\ Len(lastEvent.arg) = 0
  /\ documentSyncKind = SyncIncremental
  /\ Listeners(lastEvent.e, "onDidChangeText") # {}
  /\ sent = <<>>


\* C6: no editor ever has more than one session, and observeTextEditor on
\* an editor that has a session constructs none, sends nothing and subscribes
\* to nothing.
C6_OneSessionPerEditor ==
  [][/\ \A e \in Editors :
          Cardinality({s \in DOMAIN sessions' : sessions'[s].editor = e}) <= 1
     /\ (lastEvent'.op = "observe" /\ registry[lastEvent'.e] # NoSession)
          => /\ sessions' = sessions
             /\ sent' = <<>>
             /\ hooks' = hooks
             /\ citems' = citems
             /\ registry' = registry
    ]_vars

\* C6 witness: observeTextEditor has been called on an editor whose session
\* had sent its open notification before; the session is still the only one.
C6_Witness ==
  /\ lastEvent.op = "observe"
  /\ registry[lastEvent.e] # NoSession
  /\ history[registry[lastEvent.e]].didOpenTextDocument = 1
  /\ sent = <<>>
  /\ Cardinality(SessionsOf(lastEvent.e)) = 1
  /\ sessions[registry[lastEvent.e]].subs # {}

\* C7: a save event makes every session that handles it send exactly two
\* notifications, the save notification and right after it the watched-files
\* notification of type Changed for the same uri, and nothing else is sent.
C7_SaveThenWatchedFiles ==
  lastEvent.op = "save" =>
    /\ \A i \in DOMAIN sent : sent[i].by \in Listeners(lastEvent.e, "onDidSave")
    /\ \A s \in Listeners(lastEvent.e, "onDidSave") :
         \E i \in DOMAIN sent :
            /\ {j \in DOMAIN sent : sent[j].by = s} = {i, i + 1}
            /\ sent[i].method = "didSaveTextDocument"
            /\ sent[i + 1].method = "didChangeWatchedFiles"
            /\ Len(sent[i + 1].changes) = 1
            /\ sent[i + 1].changes[1].type = "Changed"
            /\ sent[i + 1].changes[1].uri = sent[i].textDocument.uri

\* C7 witness: a session has handled a save event.
C7_Witness ==
  /\ lastEvent.op = "save"
  /\ Listeners(lastEvent.e, "onDidSave") # {}
  /\ Len(sent) = 2

\* C8: a session that has sent its close notification has no subscription
\* left and sends nothing afterwards; in the operation that sends the close,
\* the close is the session's last notification.
C8_CloseIsLast ==
  [][/\ \A s \in SessionIds :
          history[s].didCloseTextDocument >= 1
            => \A i \in DOMAIN sent' : sent'[i].by # s
     /\ \A s \in DOMAIN sessions' :
          history'[s].didCloseTextDocument >= 1 => sessions'[s].subs = {}
     /\ \A i, j \in DOMAIN sent' :
          (sent'[i].method = "didCloseTextDocument" /\ sent'[j].by = sent'[i].by)
            => j <= i
    ]_vars

\* C8 witness: a session that had sent a change notification has sent its
\* close notification on the destroy event.
C8_Witness ==
  /\ lastEvent.op = "destroy"
  /\ \E i \in DOMAIN sent :
       /\ sent[i].method = "didCloseTextDocument"
       /\ history[sent[i].by].didChangeTextDocument >= 1
       /\ sessions[sent[i].by].subs = {}

\* C9: when an editor with a session that is not disposed is destroyed, the
\* session sends one close notification if the editor has a path and none
\* otherwise; no session ever sends more than one close notification.
C9_CloseOnceIfIdentity ==
  [][/\ lastEvent'.op = "destroy"
          => \A s \in SessionsOf(lastEvent'.e) :
                ~sessions[s].disposed
                  => Cardinality(NotesBy(sent', s, "didCloseTextDocument"))
                       = IF HasIdentity(lastEvent'.e) THEN 1 ELSE 0
     /\ \A s \in DOMAIN history' : history'[s].didCloseTextDocument <= 1
    ]_vars

\* C9 witness: an editor with a path and a session never disposed before has
\* been destroyed, and the session sent its one close notification.
C9_Witness ==
  /\ lastEvent.op = "destroy"
  /\ HasIdentity(lastEvent.e)
  /\ Len(sent) = 1
  /\ sent[1].method = "didCloseTextDocument"
  /\ sent[1].by \notin disposedOn
  /\ history[sent[1].by].didCloseTextDocument = 1

\* C10: once dispose() of the coordinator or of a session has run, no session
\* that existed then sends a notification for a later event.
C10_NoNotificationAfterDispose ==
  \A i \in DOMAIN sent : sent[i].by \notin disposedOn

\* C11: dispose() of a session sends nothing (no close notification), leaves
\* the session without subscriptions, and on a session already disposed it
\* changes nothing; the destroy event of an editor whose session was disposed
\* before (the teardown hook disposing it again) changes nothing of that
\* session and sends nothing for it.
C11_DisposeIdempotentSilent ==
  [][/\ lastEvent'.op = "sessionDispose"
          => /\ sent' = <<>>
             /\ history' = history
             /\ sessions'[lastEvent'.arg].subs = {}
             /\ sessions[lastEvent'.arg].disposed => sessions' = sessions
     /\ lastEvent'.op = "destroy"
          => \A s \in SessionsOf(lastEvent'.e) :
                sessions[s].disposed
                  => /\ sessions'[s] = sessions[s]
                     /\ \A i \in DOMAIN sent' : sent'[i].by # s
    ]_vars

\* C11 witness: an editor was destroyed after dispose() had been called on
\* its session, whose open notification had been sent; the hook disposed the
\* session again and no close notification was sent.
C11_Witness ==
  /\ lastEvent.op = "destroy"
  /\ HasIdentity(lastEvent.e)
  /\ ~cdisposed
  /\ \E s \in SessionsOf(lastEvent.e) :
       /\ s \in disposedOn
       /\ history[s].didOpenTextDocument = 1
       /\ history[s].didCloseTextDocument = 0
       /\ sessions[s].disposed
  /\ sent = <<>>

\* C12 as stated: in every reachable state the sessions of a destroyed editor
\* are disposed and the registry holds no entry for a destroyed editor.
C12_NoEntryForDestroyed ==
  \A e \in Editors :
     editors[e].status = "destroyed"
       => /\ registry[e] = NoSession
          /\ \A s \in SessionsOf(e) : sessions[s].disposed /\ sessions[s].subs = {}

\* C12 amended: in every reachable state the sessions of a destroyed editor
\* are disposed, and the registry holds no entry for a destroyed editor unless
\* the coordinator has been disposed (dispose() releases the teardown hook, so
\* the entry of an editor destroyed afterwards stays).
C12_NoEntryForDestroyedUnlessDisposed ==
  \A e \in Editors :
     editors[e].status = "destroyed"
       => /\ ~cdisposed => registry[e] = NoSession
          /\ \A s \in SessionsOf(e) : sessions[s].disposed /\ sessions[s].subs = {}

\* C12 witness: an editor whose session was live has been destroyed; the
\* session is disposed and the registry entry is gone.
C12_Witness ==
  /\ lastEvent.op = "destroy"
  /\ ~cdisposed
  /\ registry[lastEvent.e] = NoSession
  /\ \E s \in SessionsOf(lastEvent.e) :
       /\ s \notin disposedOn
       /\ sessions[s].disposed
       /\ sessions[s].subs = {}

\* the change-tracking subscriptions a session holds
Strategy(session) == session.subs \cap {"onDidChange", "onDidChangeText"}

\* C13 as stated: every session that is not disposed has exactly one of the
\* two change-tracking strategies active.
C13_ExactlyOneStrategy ==
  \A s \in SessionIds :
     ~sessions[s].disposed => Cardinality(Strategy(sessions[s])) = 1

\* C13 amended: a session that is not disposed tracks changes by exactly the
\* Full strategy when the coordinator was given Full, by exactly the
\* Incremental strategy when it was given Incremental, and by neither when it
\* was given None or an unrecognized value; the strategy does not change
\* while the session is not disposed.
C13_StrategyFromCapability ==
  [][\A s \in DOMAIN sessions' :
        ~sessions'[s].disposed
          => /\ documentSyncKind = SyncFull
                  => Strategy(sessions'[s]) = {"onDidChange"}
             /\ documentSyncKind = SyncIncremental
                  => Strategy(sessions'[s]) = {"onDidChangeText"}
             /\ documentSyncKind \notin {SyncFull, SyncIncremental}
                  => Strategy(sessions'[s]) = {}
             /\ s \in SessionIds => Strategy(sessions'[s]) = Strategy(sessions[s])
    ]_vars

\* C13 witness: a session of the Full strategy has handled a change event and
\* then a save event and still holds that strategy alone.
C13_Witness ==
  /\ lastEvent.op = "save"
  /\ documentSyncKind = SyncFull
  /\ \E s \in SessionsOf(lastEvent.e) :
       /\ ~sessions[s].disposed
       /\ sessions[s].version >= 2
       /\ Strategy(sessions[s]) = {"onDidChange"}

\* C14 as stated: canAdapt(capability) is true if and only if the capability
\* is Full or Incremental, false for None and every other value, and the call
\* changes no state.
C14_CanAdaptIffFullOrIncremental ==
  [][lastEvent'.op = "canAdapt"
       => /\ lastEvent'.arg.result
               <=> lastEvent'.arg.capability
                     \in {JSNumber(SyncFull), JSNumber(SyncIncremental)}
          /\ UNCHANGED <<documentSyncKind, editorSelector, hostEditors, editors,
                         registry, sessions, observing, cdisposed, citems,
                         hooks, history, disposedOn>>
    ]_vars

\* C15 as stated: when constructing a session fails during observe(document)
\* the registry is left unchanged, the sessions and registry entries of the
\* other documents are unaffected, and no event subscription of the failed
\* session remains active.
C15_FailedObserveLeavesNothing ==
  [][lastEvent'.op = "observeThrows"
       => /\ registry' = registry
          /\ \A s \in SessionIds : sessions'[s] = sessions[s]
          /\ citems' = citems
          /\ hooks' = hooks
          /\ sessions'[lastEvent'.arg].subs = {}
    ]_vars

\* C16: in Incremental mode a change notification for a non-empty batch has
\* as many change records as the batch has sub-edits, in the batch's order,
\* the i-th carrying the i-th sub-edit's old range, the length of its removed
\* text and its new text.
C16_IncrementalRecordsMirrorBatch ==
  [][lastEvent'.op = "change" /\ documentSyncKind = SyncIncremental
       => \A i \in DOMAIN sent' :
            LET batch == lastEvent'.arg
                records == sent'[i].contentChanges IN
            /\ sent'[i].method = "didChangeTextDocument"
            /\ Len(records) = Len(batch)
            /\ \A j \in DOMAIN batch :
                 /\ records[j].range.start.line = batch[j].oldRange.start.row
                 /\ records[j].range.start.character = batch[j].oldRange.start.column
                 /\ records[j].range.end.line = batch[j].oldRange.end.row
                 /\ records[j].range.end.character = batch[j].oldRange.end.column
                 /\ records[j].rangeLength = Len(batch[j].oldText)
                 /\ records[j].text = batch[j].newText
    ]_vars

\* C16 witness: an Incremental session has sent a change notification for a
\* batch of two different sub-edits, an insertion then a removal.
C16_Witness ==
  /\ lastEvent.op = "change"
  /\ documentSyncKind = SyncIncremental
  /\ Len(lastEvent.arg) = 2
  /\ lastEvent.arg[1].oldText = <<>>
  /\ lastEvent.arg[2].oldText # <<>>
  /\ Len(sent) = 1
  /\ Len(sent[1].contentChanges) = 2

\* C17: in Full mode every change notification has exactly one change record,
\* which has no range information and whose text is the complete text of the
\* document at the moment of emission.
C17_FullRecordIsWholeText ==
  [][lastEvent'.op = "change" /\ documentSyncKind = SyncFull
       => \A i \in DOMAIN sent' :
            /\ sent'[i].method = "didChangeTextDocument"
            /\ Len(sent'[i].contentChanges) = 1
            /\ DOMAIN sent'[i].contentChanges[1] = {"text"}
            /\ sent'[i].contentChanges[1].text = editors'[lastEvent'.e].text
    ]_vars

\* C17 witness: a Full session has sent a change notification after one
\* insertion, carrying the text with the inserted character.
C17_Witness ==
  /\ lastEvent.op = "change"
  /\ documentSyncKind = SyncFull
  /\ Len(lastEvent.arg) = 1
  /\ lastEvent.arg[1].newText # <<>>
  /\ Len(sent) = 1
  /\ sent[1].contentChanges[1].text = editors[lastEvent.e].text
  /\ sent[1].contentChanges[1].text # <<>>

\* the identity a notification carries
NoteUri(note) ==
  IF note.method = "didChangeWatchedFiles" THEN note.changes[1].uri
  ELSE note.textDocument.uri

\* editor d is a document open on the server under its own identity
OpenUnderIdentity(d) ==
  /\ editors[d].status = "alive"
  /\ HasIdentity(d)
  /\ registry[d] # NoSession
  /\ ~sessions[registry[d]].disposed

\* C18, the part on the sessions: a change, save or destroy event on one
\* document leaves the session and the registry entry of every other document
\* unchanged.
C18_OtherSessionsUnchanged ==
  [][lastEvent'.op \in {"change", "save", "destroy"}
       => /\ \A s \in SessionIds :
               sessions[s].editor # lastEvent'.e => sessions'[s] = sessions[s]
          /\ \A d \in Editors \ {lastEvent'.e} : registry'[d] = registry[d]
          /\ \A i \in DOMAIN sent' : sessions[sent'[i].by].editor = lastEvent'.e
    ]_vars

\* C18 as stated: a change, save or destroy event on one document leaves
\* every other document's session and registry entry unchanged and emits no
\* notification carrying another document's identity.
C18_DocumentsIndependent ==
  [][lastEvent'.op \in {"change", "save", "destroy"}
       => /\ \A s \in SessionIds :
               sessions[s].editor # lastEvent'.e => sessions'[s] = sessions[s]
          /\ \A d \in Editors \ {lastEvent'.e} :
               /\ registry'[d] = registry[d]
               /\ OpenUnderIdentity(d)
                    => \A i \in DOMAIN sent' :
                          NoteUri(sent'[i]) # getEditorUri(editors[d])
    ]_vars

\* C19 as stated: a call of observeTextEditor after dispose() of the
\* coordinator creates no session, sends no open notification and leaves no
\* event subscription active.
C19_ObserveAfterDisposeInert ==
  [][lastEvent'.op = "observe" /\ cdisposed
       => /\ sessions' = sessions
          /\ sent' = <<>>
          /\ hooks' = hooks
          /\ registry' = registry
    ]_vars

\* C20 as stated: every notification of a session carries the identity that
\* the session's open notification carried, also after the document's
\* persisted location has changed.
C20_IdentityAsOpened ==
  \A i \in DOMAIN sent :
     openedAs[sent[i].by] # Null => NoteUri(sent[i]) = openedAs[sent[i].by]

====
